---- MODULE Spec2Model ----
(***************************************************************************)
(* Model of vspc_bulk_reports.py: one run of the VSPC bulk report creator. *)
(*                                                                         *)
(* Python values are modelled as strings.  None stands for a value that    *)
(* dict.get() finds missing or empty (every falsy value behaves the same   *)
(* in `a or b` and in `if x:`); Absent marks a key with a default other    *)
(* than None.                                                              *)
(***************************************************************************)
EXTENDS Integers, Sequences, FiniteSets, TLC

VARIABLES
    pc,                   \* position of main()
    args,                 \* parsed command line: [company, dry_run]
    auth_env,             \* what the browser did during get_token_and_cookie
    token, cookie,        \* the pair get_token_and_cookie returned
    all_companies,        \* main: all_companies
    existing_reports,     \* main: existing_reports
    companies_to_process, \* main: companies_to_process
    i,                    \* create_reports_for_companies: loop index (1-based)
    success, failed,      \* results["success"], results["failed"]
    calls,                \* management-API requests issued so far, in order
    covered,              \* history: every selected target already had a report
    exit_code,            \* process exit status, NoExit while running
    exit_line             \* source line of the exit taken

vars == <<pc, args, auth_env, token, cookie, all_companies, existing_reports,
          companies_to_process, i, success, failed, calls, covered,
          exit_code, exit_line>>

----------------------------------------------------------------------------
(* Bounds of the model *)

MaxCompanies == 2
MaxReports == 2

----------------------------------------------------------------------------
(* Python values *)

None == "None"
Absent == "Absent"
NoExit == -1

Truthy(v) == v \notin {None, ""}

\* Python's `a or b`
Or(a, b) == IF Truthy(a) THEN a ELSE b

Ids == {"c1", "c2"}
FieldVals == {None} \cup Ids
Names == {"Acme", "Beta"}
NameVals == {Absent} \cup Names

\* str.lower() on the strings of the model
Lower(s) ==
    CASE s = "Acme" -> "acme"
      [] s = "ACME" -> "acme"
      [] s = "Beta" -> "beta"
      [] s = "BETA" -> "beta"
      [] OTHER -> s

SeqsUpTo(S, n) == UNION {[1..k -> S] : k \in 0..n}

RawCompanies == [companyId : FieldVals, id : FieldVals, instanceUid : FieldVals,
                 name : NameVals]

\* number of identifier fields a company record carries
IdFieldCount(c) ==
    (IF c.companyId # None THEN 1 ELSE 0) + (IF c.id # None THEN 1 ELSE 0)
        + (IF c.instanceUid # None THEN 1 ELSE 0)

ReportRecs == [companyID : FieldVals]

----------------------------------------------------------------------------
(* VSPCReportManager.find_companies_without_reports *)

\* variant: the third identifier field is not consulted
CompanyId_NoInstanceUid(c) == Or(c.companyId, c.id)

\* company.get("companyId") or company.get("id") or company.get("instanceUid")
CompanyId(c) == Or(c.companyId, Or(c.id, c.instanceUid))

\* company.get("name", "Unknown")
CompanyName(c) == IF c.name = Absent THEN "Unknown" ELSE c.name

\* company_map[key] = info on an insertion-ordered dict
DictPut(map, key, info) ==
    IF \E k \in 1..Len(map) : map[k].id = key
    THEN [k \in 1..Len(map) |-> IF map[k].id = key THEN info ELSE map[k]]
    ELSE Append(map, info)

RECURSIVE BuildCompanyMap(_, _)
BuildCompanyMap(companies, map) ==
    IF companies = <<>> THEN map
    ELSE LET c == Head(companies)
             company_id == CompanyId(c)
         IN  BuildCompanyMap(Tail(companies),
                 IF Truthy(company_id)
                 THEN DictPut(map, company_id,
                              [id |-> company_id, name |-> CompanyName(c)])
                 ELSE map)

\* keys of companies_with_reports
CompaniesWithReports(reports) ==
    {reports[k].companyID : k \in {j \in 1..Len(reports) : Truthy(reports[j].companyID)}}

FindCompaniesWithoutReports(companies, reports) ==
    LET company_map == BuildCompanyMap(companies, <<>>)
        with_reports == CompaniesWithReports(reports)
    IN  SelectSeq(company_map, LAMBDA info : info.id \notin with_reports)

----------------------------------------------------------------------------
(* get_token_and_cookie *)

Outcomes == {"ok", "raise"}

\* What the browser does during one login flow.  access_token is the value
\* handle_response leaves in captured_token (None when no usable token
\* response was seen); x_auth is the value of the x-authorization cookie
\* (None when the cookie is not set).
AuthEnvs == [goto : Outcomes, fill_user : Outcomes, fill_pass : Outcomes,
             click_login : Outcomes, click_submit : Outcomes, click_any : Outcomes,
             wait_url : {"ok", "timeout"},
             access_token : {None, "", "tok"}, x_auth : {None, "", "ck"}]

NoEnv == [goto |-> None, fill_user |-> None, fill_pass |-> None,
          click_login |-> None, click_submit |-> None, click_any |-> None,
          wait_url |-> None, access_token |-> None, x_auth |-> None]

\* variant: the last click strategy fails silently too
SubmitRaises_Silent(env) == FALSE

\* the nested try/except around the three page.click strategies
SubmitRaises(env) ==
    env.click_login = "raise" /\ env.click_submit = "raise" /\ env.click_any = "raise"

\* True when an exception leaves get_token_and_cookie
AuthRaises(env) ==
    \/ env.goto = "raise"
    \/ env.fill_user = "raise"
    \/ env.fill_pass = "raise"
    \/ SubmitRaises(env)

\* return token, x_auth_cookie
GetTokenAndCookie(env) == [token |-> env.access_token, cookie |-> env.x_auth]

----------------------------------------------------------------------------
(* VSPCReportManager: the responses of the management API *)

Call(ep, idx, out) == [ep |-> ep, idx |-> idx, out |-> out]

\* responses of /uiapi/Location/GetLocations as the loop body sees them:
\* an HTTP error, a list whose locations all carry a name, a list with a
\* location that has no name
LocationOutcomes == {"raise", "ok", "unnamed"}

\* variant: a failed location fetch is swallowed and the save still goes out
LocationsRaise_Swallowed(out) == FALSE

\* the try block up to the create_report call raises
LocationsRaise(out) == out \in {"raise", "unnamed"}

\* responses of /uiapi/Report/Save: an HTTP error, or a JSON body whose data
\* field is missing, null, a scalar, or an object with a status
SaveResponses == {"raise", "nodata", "nulldata", "scalardata", "success", "error"}

\* result.get("data", {}).get("status") raises AttributeError
CreateReportRaises(resp) == resp \in {"raise", "nulldata", "scalardata"}

\* variant: every status but an explicit error counts as success
CreateReportOk_NotError(resp) == resp # "error"

\* the first component of create_report's return value
CreateReportOk(resp) == resp = "success"

----------------------------------------------------------------------------
(* main *)

\* the company records a run of main receives: each carries its identifier
\* under at most one of the three field names (all combinations of the three
\* fields go through find_companies_without_reports under SpecFind)
CompanyRecs == {c \in RawCompanies : IdFieldCount(c) <= 1}

\* the reports a run of main receives: each names its company
LinkedReportRecs == {r \in ReportRecs : r.companyID # None}

ArgsSet == [company : {None, "ACME"}, dry_run : BOOLEAN]

\* c.get("name", "")
NameOrEmpty(c) == IF c.name = Absent THEN "" ELSE c.name

\* variant: substring match, name.lower() in args.company.lower()
TargetCompanies_Substring(companies, name) ==
    SelectSeq(companies, LAMBDA c : Lower(NameOrEmpty(c)) \in {"", Lower(name)})

\* [c for c in all_companies if c.get("name", "").lower() == args.company.lower()]
TargetCompanies(companies, name) ==
    SelectSeq(companies, LAMBDA c : Lower(NameOrEmpty(c)) = Lower(name))

\* the single-company companies_to_process
SingleCompany(t) ==
    <<[id |-> Or(t.companyId, t.id),
       name |-> IF t.name = Absent THEN None ELSE t.name]>>

\* variant: `and` in place of `or`
AuthFailed_BothMissing(t, c) == ~Truthy(t) /\ ~Truthy(c)

\* if not token or not cookie
AuthFailed(t, c) == ~Truthy(t) \/ ~Truthy(c)

Init ==
    /\ pc = "start"
    /\ args \in ArgsSet
    /\ auth_env = NoEnv
    /\ token = None
    /\ cookie = None
    /\ all_companies = <<>>
    /\ existing_reports = <<>>
    /\ companies_to_process = <<>>
    /\ i = 0
    /\ success = <<>>
    /\ failed = <<>>
    /\ calls = <<>>
    /\ covered = FALSE
    /\ exit_code = NoExit
    /\ exit_line = 0

\* sys.exit(code) reached at source line `line`
Exit(code, line) ==
    /\ pc' = "done"
    /\ exit_code' = code
    /\ exit_line' = line

\* token, cookie = await get_token_and_cookie(...); an exception leaves main
\* and asyncio.run, and the interpreter ends with status 1
Authenticate ==
    /\ pc = "start"
    /\ \E env \in AuthEnvs :
        /\ auth_env' = env
        /\ IF AuthRaises(env)
           THEN /\ Exit(1, 302)
                /\ UNCHANGED <<token, cookie>>
           ELSE /\ token' = GetTokenAndCookie(env).token
                /\ cookie' = GetTokenAndCookie(env).cookie
                /\ pc' = "authed"
                /\ UNCHANGED <<exit_code, exit_line>>
    /\ UNCHANGED <<args, all_companies, existing_reports, companies_to_process,
                   i, success, failed, calls, covered>>

\* if not token or not cookie: sys.exit(1); manager = VSPCReportManager(...)
CheckAuth ==
    /\ pc = "authed"
    /\ IF AuthFailed(token, cookie)
       THEN Exit(1, 306)
       ELSE /\ pc' = "get_companies"
            /\ UNCHANGED <<exit_code, exit_line>>
    /\ auth_env' = NoEnv
    /\ UNCHANGED <<args, token, cookie, all_companies, existing_reports,
                   companies_to_process, i, success, failed, calls, covered>>

\* all_companies = manager.get_companies()
GetCompanies ==
    /\ pc = "get_companies"
    /\ \/ /\ calls' = Append(calls, Call("GetCompanyList", 0, "raise"))
          /\ Exit(1, 366)
          /\ UNCHANGED all_companies
       \/ \E cs \in SeqsUpTo(CompanyRecs, MaxCompanies) :
          /\ calls' = Append(calls, Call("GetCompanyList", 0, "ok"))
          /\ all_companies' = cs
          /\ pc' = "get_reports"
          /\ UNCHANGED <<exit_code, exit_line>>
    /\ UNCHANGED <<args, auth_env, token, cookie, existing_reports,
                   companies_to_process, i, success, failed, covered>>

\* existing_reports = manager.get_existing_reports()
GetExistingReports ==
    /\ pc = "get_reports"
    /\ \/ /\ calls' = Append(calls, Call("GetReports", 0, "raise"))
          /\ Exit(1, 366)
          /\ UNCHANGED existing_reports
       \/ \E rs \in SeqsUpTo(LinkedReportRecs, MaxReports) :
          /\ calls' = Append(calls, Call("GetReports", 0, "ok"))
          /\ existing_reports' = rs
          /\ pc' = "select"
          /\ UNCHANGED <<exit_code, exit_line>>
    /\ UNCHANGED <<args, auth_env, token, cookie, all_companies,
                   companies_to_process, i, success, failed, covered>>

\* if args.company: ... else: ...  (the choice of companies_to_process)
Select ==
    /\ pc = "select"
    /\ IF Truthy(args.company)
       THEN LET target_companies == TargetCompanies(all_companies, args.company)
            IN  IF target_companies = <<>>
                THEN /\ Exit(1, 322)
                     /\ UNCHANGED <<companies_to_process, covered>>
                ELSE /\ companies_to_process' = SingleCompany(target_companies[1])
                     /\ covered' = (SingleCompany(target_companies[1])[1].id
                                        \in CompaniesWithReports(existing_reports))
                     /\ pc' = "selected"
                     /\ UNCHANGED <<exit_code, exit_line>>
       ELSE /\ companies_to_process' =
                   FindCompaniesWithoutReports(all_companies, existing_reports)
            /\ covered' = \A k \in 1..Len(all_companies) :
                   Truthy(CompanyId(all_companies[k])) =>
                       CompanyId(all_companies[k]) \in CompaniesWithReports(existing_reports)
            /\ pc' = "selected"
            /\ UNCHANGED <<exit_code, exit_line>>
    /\ UNCHANGED <<args, auth_env, token, cookie, all_companies, existing_reports,
                   i, success, failed, calls>>

\* if not companies_to_process: sys.exit(0); otherwise enter
\* create_reports_for_companies.  all_companies and existing_reports are not
\* read again and leave the model here.
CheckEmpty ==
    /\ pc = "selected"
    /\ IF companies_to_process = <<>>
       THEN /\ Exit(0, 338)
            /\ UNCHANGED <<i, all_companies, existing_reports>>
       ELSE /\ pc' = "loop"
            /\ i' = 1
            /\ all_companies' = <<>>
            /\ existing_reports' = <<>>
            /\ UNCHANGED <<exit_code, exit_line>>
    /\ UNCHANGED <<args, auth_env, token, cookie, companies_to_process,
                   success, failed, calls, covered>>

\* one iteration of the loop with dry_run set
DryRunStep ==
    /\ pc = "loop"
    /\ i <= Len(companies_to_process)
    /\ args.dry_run
    /\ success' = Append(success, companies_to_process[i].name)
    /\ i' = i + 1
    /\ UNCHANGED <<pc, args, auth_env, token, cookie, all_companies, existing_reports,
                   companies_to_process, failed, calls, covered, exit_code, exit_line>>

\* variant: the loop body without the dry_run test
GetLocations_NoDryRunCheck ==
    /\ pc = "loop"
    /\ i <= Len(companies_to_process)
    /\ \E out \in LocationOutcomes :
        /\ calls' = Append(calls, Call("GetLocations", i, out))
        /\ IF out \in {"raise", "unnamed"}
           THEN /\ failed' = Append(failed, companies_to_process[i].name)
                /\ i' = i + 1
                /\ UNCHANGED pc
           ELSE /\ pc' = "save"
                /\ UNCHANGED <<failed, i>>
    /\ UNCHANGED <<args, auth_env, token, cookie, all_companies, existing_reports,
                   companies_to_process, success, covered, exit_code, exit_line>>

\* locations = self.get_locations_for_company(company_id) and the location
\* name listing; an exception goes to the loop's except clause
GetLocations ==
    /\ pc = "loop"
    /\ i <= Len(companies_to_process)
    /\ ~args.dry_run
    /\ \E out \in LocationOutcomes :
        /\ calls' = Append(calls, Call("GetLocations", i, out))
        /\ IF LocationsRaise(out)
           THEN /\ failed' = Append(failed, companies_to_process[i].name)
                /\ i' = i + 1
                /\ UNCHANGED pc
           ELSE /\ pc' = "save"
                /\ UNCHANGED <<failed, i>>
    /\ UNCHANGED <<args, auth_env, token, cookie, all_companies, existing_reports,
                   companies_to_process, success, covered, exit_code, exit_line>>

\* success, report_name = self.create_report(...) and the bookkeeping after it
CreateReport ==
    /\ pc = "save"
    /\ \E resp \in SaveResponses :
        /\ calls' = Append(calls, Call("Save", i, resp))
        /\ IF ~CreateReportRaises(resp) /\ CreateReportOk(resp)
           THEN /\ success' = Append(success, companies_to_process[i].name)
                /\ UNCHANGED failed
           ELSE /\ failed' = Append(failed, companies_to_process[i].name)
                /\ UNCHANGED success
    /\ i' = i + 1
    /\ pc' = "loop"
    /\ UNCHANGED <<args, auth_env, token, cookie, all_companies, existing_reports,
                   companies_to_process, covered, exit_code, exit_line>>

\* variant: the run ends with status 0 whatever the failed list holds
Summary_ExitZero ==
    /\ pc = "loop"
    /\ i > Len(companies_to_process)
    /\ Exit(0, 360)
    /\ UNCHANGED <<args, auth_env, token, cookie, all_companies, existing_reports,
                   companies_to_process, i, success, failed, calls, covered>>

\* return results; the summary; sys.exit(0 if not results["failed"] else 1)
Summary ==
    /\ pc = "loop"
    /\ i > Len(companies_to_process)
    /\ Exit(IF failed = <<>> THEN 0 ELSE 1, 360)
    /\ UNCHANGED <<args, auth_env, token, cookie, all_companies, existing_reports,
                   companies_to_process, i, success, failed, calls, covered>>

Next ==
    \/ Authenticate
    \/ CheckAuth
    \/ GetCompanies
    \/ GetExistingReports
    \/ Select
    \/ CheckEmpty
    \/ DryRunStep
    \/ GetLocations
    \/ CreateReport
    \/ Summary

Spec == Init /\ [][Next]_vars

----------------------------------------------------------------------------
(* find_companies_without_reports on its own: every pair of a company list *)
(* and a report list, then one call.                                       *)

FindCompanyRecs == {c \in RawCompanies : c.name = "Acme"}

InitFind ==
    /\ pc = "find_call"
    /\ args = [company |-> None, dry_run |-> FALSE]
    /\ auth_env = NoEnv
    /\ token = "tok"
    /\ cookie = "ck"
    /\ all_companies \in SeqsUpTo(FindCompanyRecs, MaxCompanies)
    /\ existing_reports \in SeqsUpTo(ReportRecs, MaxReports)
    /\ companies_to_process = <<>>
    /\ i = 0
    /\ success = <<>>
    /\ failed = <<>>
    /\ calls = <<>>
    /\ covered = FALSE
    /\ exit_code = NoExit
    /\ exit_line = 0

FindCall ==
    /\ pc = "find_call"
    /\ companies_to_process' = FindCompaniesWithoutReports(all_companies, existing_reports)
    /\ pc' = "find_return"
    /\ UNCHANGED <<args, auth_env, token, cookie, all_companies, existing_reports,
                   i, success, failed, calls, covered, exit_code, exit_line>>

NextFind == FindCall

SpecFind == InitFind /\ [][NextFind]_vars

----------------------------------------------------------------------------
(* Vocabulary of the properties, stated from the specification and not by  *)
(* way of the operators above.                                             *)

\* the identifier of a company record: the first non-empty of its three fields
FirstIdentifier(c) ==
    IF c.companyId # None THEN c.companyId
    ELSE IF c.id # None THEN c.id
    ELSE c.instanceUid

ReportCompanyIds == {existing_reports[k].companyID : k \in 1..Len(existing_reports)}

ReturnedIds == {companies_to_process[k].id : k \in 1..Len(companies_to_process)}

CallsTo(ep) == {k \in 1..Len(calls) : calls[k].ep = ep}

CallsFor(ep, idx) == {k \in CallsTo(ep) : calls[k].idx = idx}

SaveCalled == CallsTo("Save") # {}

\* the names that equal NAME when case is ignored
SameNameIgnoringCase(name) ==
    IF name \in {"acme", "Acme", "ACME"} THEN {"acme", "Acme", "ACME"}
    ELSE IF name \in {"beta", "Beta", "BETA"} THEN {"beta", "Beta", "BETA"}
    ELSE {name}

NoCompanyNamed(name) ==
    \A k \in 1..Len(all_companies) :
        all_companies[k].name \notin SameNameIgnoringCase(name)

\* target companies whose loop iteration is over
Processed == IF i = 0 THEN 0 ELSE i - 1

TargetNames == [k \in 1..Len(companies_to_process) |-> companies_to_process[k].name]

----------------------------------------------------------------------------
(* C1 *)

\* C1 (as claimed): find_companies_without_reports returns a company exactly
\* when its identifier is the companyID of no report; in particular every
\* company that no report references is returned.
C1_ExactDifference ==
    pc = "find_return" =>
        \A k \in 1..Len(all_companies) :
            (FirstIdentifier(all_companies[k]) \in ReturnedIds)
                <=> (FirstIdentifier(all_companies[k]) \notin ReportCompanyIds)

\* C1 (amended): the returned list holds one entry per distinct non-empty
\* identifier of the company list that is the companyID of no report, each
\* entry carrying that identifier and the name of a company that has it;
\* a company with no non-empty identifier is never returned.
C1_DifferenceOfIdentified ==
    pc = "find_return" =>
        /\ ReturnedIds =
              ({FirstIdentifier(all_companies[k]) : k \in 1..Len(all_companies)}
                   \ {None}) \ ReportCompanyIds
        /\ \A j, k \in 1..Len(companies_to_process) :
              companies_to_process[j].id = companies_to_process[k].id => j = k
        /\ \A j \in 1..Len(companies_to_process) :
              \E k \in 1..Len(all_companies) :
                  /\ FirstIdentifier(all_companies[k]) = companies_to_process[j].id
                  /\ companies_to_process[j].name =
                        (IF all_companies[k].name = Absent THEN "Unknown"
                         ELSE all_companies[k].name)

\* a call that returns one company, drops a reported one and skips one
\* without identifier
C1_Witness ==
    /\ pc = "find_return"
    /\ Len(all_companies) = 2
    /\ Len(companies_to_process) = 1
    /\ companies_to_process[1].id = all_companies[2].instanceUid
    /\ all_companies[2].companyId = None
    /\ all_companies[2].id = None
    /\ FirstIdentifier(all_companies[1]) \in ReportCompanyIds

----------------------------------------------------------------------------
(* C2 *)

\* C2: in a dry run the save endpoint is never called, nothing is recorded as
\* failed, every processed target is in the success list, and a run that
\* reaches the creation step ends with exit code 0.
C2_DryRunNeverSaves ==
    args.dry_run =>
        /\ ~SaveCalled
        /\ failed = <<>>
        /\ pc = "loop" => success = SubSeq(TargetNames, 1, Processed)
        /\ exit_line = 360 => exit_code = 0 /\ success = TargetNames

\* a bulk dry run over two targets, finished
C2_Witness ==
    /\ args.dry_run
    /\ args.company = None
    /\ exit_line = 360
    /\ Len(companies_to_process) = 2
    /\ Len(success) = 2

----------------------------------------------------------------------------
(* C3 *)

\* C3 (as claimed): in a non-dry run, bulk or single-company, in which every
\* selected target already has a report, the save endpoint is never called
\* and the run ends with exit code 0.
C3_CoveredTargetsNoSave ==
    (~args.dry_run /\ covered) =>
        /\ ~SaveCalled
        /\ pc = "done" => exit_code = 0

----------------------------------------------------------------------------
(* C4 *)

\* the request just issued was a location fetch or a save that failed
FailedRequest(c) ==
    \/ c.ep = "GetLocations" /\ c.out # "ok"
    \/ c.ep = "Save" /\ c.out # "success"

\* C4: a location fetch that raises, a save that raises, or a save response
\* whose data.status is not "success" puts the company in the failed list and
\* not in the success list, and the loop goes on to the next company; once
\* the loop is entered the run ends only after every target had its location
\* fetch, and its save whenever the fetch succeeded.
C4_FailureRecordedLoopContinues ==
    /\ [][Len(calls') = Len(calls) + 1 /\ FailedRequest(calls'[Len(calls')]) =>
            /\ failed' = Append(failed, companies_to_process[i].name)
            /\ success' = success
            /\ i' = i + 1
            /\ pc' = "loop"]_vars
    /\ []((pc = "done" /\ i > 0 /\ ~args.dry_run) =>
            /\ exit_line = 360
            /\ \A k \in 1..Len(companies_to_process) :
                  /\ CallsFor("GetLocations", k) # {}
                  /\ (\E n \in CallsFor("GetLocations", k) : calls[n].out = "ok")
                        => CallsFor("Save", k) # {})

\* the first company's save answered with a null data field, the second
\* company's save succeeded
C4_Witness ==
    /\ pc = "done"
    /\ Len(companies_to_process) = 2
    /\ \E n \in CallsFor("Save", 1) : calls[n].out = "nulldata"
    /\ \E n \in CallsFor("Save", 2) : calls[n].out = "success"
    /\ failed = <<companies_to_process[1].name>>
    /\ success = <<companies_to_process[2].name>>

----------------------------------------------------------------------------
(* C5 *)

\* C5: when authentication yields a token without a cookie, a cookie without
\* a token, or neither, no management-API request is issued and the run ends
\* with exit code 1.
C5_AuthFailureNoRequests ==
    (pc # "start" /\ (token \in {None, ""} \/ cookie \in {None, ""})) =>
        /\ calls = <<>>
        /\ pc \in {"authed", "done"}
        /\ pc = "done" => exit_code = 1

\* a token without a cookie, the run over
C5_Witness ==
    /\ pc = "done"
    /\ exit_line = 306
    /\ token = "tok"
    /\ cookie = None

----------------------------------------------------------------------------
(* C6 *)

\* C6: in single-company mode, when no fetched company has the requested name
\* (case ignored), the selection step ends the run with exit code 1 without
\* a request to the location or save endpoint, and nothing happens after the
\* exit.
C6_UnknownCompanyExits ==
    [][/\ (pc = "select" /\ args.company # None /\ NoCompanyNamed(args.company)) =>
             /\ pc' = "done"
             /\ exit_code' = 1
             /\ exit_line' = 322
             /\ CallsTo("GetLocations")' = {}
             /\ CallsTo("Save")' = {}
       /\ pc = "done" => vars' = vars]_vars

\* the company list held companies, none with the requested name
C6_Witness ==
    /\ pc = "done"
    /\ exit_line = 322
    /\ Len(all_companies) = 2
    /\ exit_code = 1

----------------------------------------------------------------------------
(* C7 *)

\* some step of the run raised outside the per-company loop
RaisedOutsideLoop ==
    \/ exit_line = 302
    \/ \E k \in 1..Len(calls) :
          calls[k].ep \in {"GetCompanyList", "GetReports"} /\ calls[k].out = "raise"

\* an upper bound on the steps the run can still take
StepsLeft ==
    CASE pc = "start" -> 2 * MaxCompanies + 8
      [] pc = "authed" -> 2 * MaxCompanies + 7
      [] pc = "get_companies" -> 2 * MaxCompanies + 6
      [] pc = "get_reports" -> 2 * Len(all_companies) + 5
      [] pc = "select" -> 2 * Len(all_companies) + 4
      [] pc = "selected" -> 2 * Len(companies_to_process) + 3
      [] pc = "loop" -> 2 * (Len(companies_to_process) + 1 - i) + 2
      [] pc = "save" -> 2 * (Len(companies_to_process) + 1 - i) + 1
      [] OTHER -> 0

\* C7: every run ends (a step is always possible until the exit, and each
\* step lowers a bound on the steps left), with exit code 0 or 1; the code is 0 exactly when there
\* was nothing to do or the failed list is empty after the loop, and 1 on
\* authentication failure, on a missing target company, on a non-empty failed
\* list and on an exception outside the per-company loop.
C7_ExitCodes ==
    /\ [](/\ pc # "done" => exit_code = NoExit
          /\ pc = "done" =>
                /\ exit_code \in {0, 1}
                /\ exit_code = 0 <=>
                      \/ exit_line = 338 /\ companies_to_process = <<>>
                      \/ exit_line = 360 /\ failed = <<>>
                /\ exit_line = 306 => exit_code = 1
                /\ exit_line = 322 => exit_code = 1
                /\ failed # <<>> => exit_code = 1
                /\ RaisedOutsideLoop => exit_code = 1)
    /\ [](pc # "done" => ENABLED Next)
    /\ [][StepsLeft' < StepsLeft]_vars

\* a run that ends with exit code 1 because one of two companies failed
C7_Witness ==
    /\ pc = "done"
    /\ exit_line = 360
    /\ Len(failed) = 1
    /\ Len(success) = 1
    /\ exit_code = 1

----------------------------------------------------------------------------
(* C8 *)

\* the login flow as the specification describes its failures
LoginFlowRaises ==
    \/ auth_env.goto = "raise"
    \/ auth_env.fill_user = "raise"
    \/ auth_env.fill_pass = "raise"
    \/ /\ auth_env.click_login = "raise"
       /\ auth_env.click_submit = "raise"
       /\ auth_env.click_any = "raise"

\* C8 (as claimed): get_token_and_cookie never raises, and the pair it returns
\* has both values or neither.
C8_PairOrNothing ==
    pc # "start" =>
        /\ exit_line # 302
        /\ (token = None) <=> (cookie = None)

\* C8 (amended): get_token_and_cookie raises when the navigation, a field
\* fill, or all three click strategies fail; otherwise it returns the captured
\* access token (None when none was seen) and the x-authorization cookie value
\* (None when not set), each independently of the other.
C8_RaisesOrReturnsWhatWasCaptured ==
    (pc = "authed" \/ exit_line = 302) =>
        /\ exit_line = 302 <=> LoginFlowRaises
        /\ pc = "authed" =>
              /\ token = auth_env.access_token
              /\ cookie = auth_env.x_auth

\* the function returned a token and no cookie after the first two click
\* strategies failed
C8_Witness ==
    /\ pc = "authed"
    /\ token = "tok"
    /\ cookie = None
    /\ auth_env.click_login = "raise"
    /\ auth_env.click_submit = "raise"

----------------------------------------------------------------------------
(* C9 *)

\* C9 (as claimed): every record handed to create_reports_for_companies has a
\* non-empty identifier, the one find_companies_without_reports assigns to
\* that company: the first non-empty of companyId, id, instanceUid.
C9_TargetsCarryIdentifier ==
    pc = "selected" =>
        /\ \A j \in 1..Len(companies_to_process) :
              /\ companies_to_process[j].id # None
              /\ \E k \in 1..Len(all_companies) :
                    FirstIdentifier(all_companies[k]) = companies_to_process[j].id
        /\ args.company # None =>
              LET named == {k \in 1..Len(all_companies) :
                               all_companies[k].name \in SameNameIgnoringCase(args.company)}
                  first == CHOOSE k \in named : \A m \in named : k <= m
              IN  companies_to_process[1].id = FirstIdentifier(all_companies[first])

----------------------------------------------------------------------------
(* C10 *)

\* how the loop iteration of target k ended, read from the requests
Verdict(k) ==
    IF args.dry_run THEN "success"
    ELSE IF \E n \in CallsFor("Save", k) : calls[n].out = "success"
         THEN "success" ELSE "failed"

NamesWithVerdict(v) ==
    LET keep == SelectSeq([k \in 1..Processed |-> k], LAMBDA k : Verdict(k) = v)
    IN  [n \in 1..Len(keep) |-> companies_to_process[keep[n]].name]

\* C10: each processed target is recorded once, in one of the two lists, so
\* the lists together hold as many entries as targets were processed and, on
\* return, as there are targets; the save endpoint is called at most once per
\* target and only after that target's location fetch returned; a target is in
\* the success list of a non-dry run only if its save returned "success".
C10_OneVerdictPerTarget ==
    (pc \in {"loop", "save", "done"} /\ i > 0) =>
        /\ Len(success) + Len(failed) = Processed
        /\ success = NamesWithVerdict("success")
        /\ failed = NamesWithVerdict("failed")
        /\ exit_line = 360 => Processed = Len(companies_to_process)
        /\ \A k \in 1..Len(companies_to_process) :
              /\ Cardinality(CallsFor("Save", k)) <= 1
              /\ \A n \in CallsFor("Save", k) :
                    \E m \in CallsFor("GetLocations", k) : m < n /\ calls[m].out = "ok"
        /\ \A n \in CallsTo("Save") : calls[n].idx \in 1..Len(companies_to_process)

\* a non-dry run over two targets: one saved, one failed at its location fetch
C10_Witness ==
    /\ pc = "done"
    /\ ~args.dry_run
    /\ Len(companies_to_process) = 2
    /\ Len(success) = 1
    /\ Len(failed) = 1
    /\ Cardinality(CallsTo("Save")) = 1

====
